---- MODULE Spec2Model ----
(***************************************************************************)
(* Model of pandapower/pf/runpf_pypower.py: the PYPOWER power-flow runner  *)
(* (_runpf_pypower), its option mapping, the admittance cache, the single  *)
(* power-flow step, the solver dispatch and the reactive-limit enforcement *)
(* loop (_run_ac_pf_with_qlims_enforced).                                  *)
(*                                                                         *)
(* Active and reactive powers are float64 values, as in the numpy arrays   *)
(* bus and gen, and are added and subtracted with IEEE 754 rounding; the   *)
(* numerical kernels (fdpf, gausspf, pfsoln, _run_dc_pf, makeYbus) are     *)
(* external and appear as nondeterministic outcomes.                       *)
(***************************************************************************)
EXTENDS Integers, Sequences, FiniteSets, TLC

(* ---- bounds of the model ---- *)
NG == 4          \* number of generators (rows of gen)
NB == 4          \* number of buses (rows of bus)

Gens  == 1..NG
Buses == 1..NB

(* ---- program constants (pandapower.idx_bus) ---- *)
PQ  == 1
PV  == 2
REF == 3

Min(a, b) == IF a < b THEN a ELSE b

(* ---- numpy float64 ---- *)

\* The columns PD, QD, PG, QG, QMAX, QMIN and fixedQg are float64.  A float64
\* x is held as the integer x * 2^52 in two limbs, x * 2^52 = hi * Limb + lo
\* with 0 <= lo < Limb.  Every value of the model is a multiple of 2^-52 of
\* magnitude below 2^8, so each has such an integer, and the float64 sum of
\* two of them is their integer sum rounded to 53 significant bits.
Limb == 1073741824

F64(hi, lo) == [hi |-> hi, lo |-> lo]

Zero == F64(0, 0)

\* numpy.negative, exact
negative(x) ==
    IF x.lo = 0 THEN F64(0 - x.hi, 0) ELSE F64(0 - x.hi - 1, Limb - x.lo)

\* the comparisons < and > of two float64
less(x, y) == x.hi < y.hi \/ (x.hi = y.hi /\ x.lo < y.lo)

greater(x, y) == less(y, x)

\* the number of bits by which a non-negative integer hi * Limb + lo exceeds
\* 53 bits (hi exceeds 23 bits)
RECURSIVE ExcessBits(_)
ExcessBits(h) == IF h < 2 ^ 23 THEN 0 ELSE 1 + ExcessBits(h \div 2)

\* IEEE 754 round to nearest, ties to even, of a non-negative integer to 53
\* significant bits
round(x) ==
    LET k == ExcessBits(x.hi)
        u == 2 ^ k
        q == x.lo \div u
        r == x.lo % u
        up == k > 0 /\ (2 * r > u \/ (2 * r = u /\ q % 2 = 1))
        lo1 == (IF up THEN q + 1 ELSE q) * u
    IN  IF lo1 = Limb THEN F64(x.hi + 1, 0) ELSE F64(x.hi, lo1)

\* float64 addition: the exact sum, rounded
add(x, y) ==
    LET lo == x.lo + y.lo
        s == F64(x.hi + y.hi + (lo \div Limb), lo % Limb)
    IN  IF s.hi < 0 THEN negative(round(negative(s))) ELSE round(s)

\* float64 subtraction
subtract(x, y) == add(x, negative(y))

\* the float64 values 1.1, 2.2, 3.3 and 5.3
d1_1 == F64(4613734, 429496730)
d2_2 == F64(9227468, 858993460)
d3_3 == F64(13841203, 214748364)
d5_3 == F64(22229811, 214748364)

(* values a solve can leave in QG of an in-service generator (below every  *)
(* QMIN, within every generator's bounds, above every QMAX), and the value *)
(* it leaves in PG of an in-service generator of a reference bus, which is *)
(* not the PG the generator enters with                                    *)
QVals == {negative(d3_3), d1_1, d3_3}
PVals == {d2_2}

VARIABLES
    options,    \* the options dict handed to _runpf_pypower
    ppopt,      \* the PYPOWER options built by _get_options
    pc,         \* position of the run
    bus,        \* ppci["bus"]: per bus BUS_TYPE, PD, QD
    gen,        \* ppci["gen"]: per generator GEN_BUS, PG, QG, QMAX, QMIN, GEN_STATUS
    ref, pv, pq,\* the loop's bus partition (index lists as sets)
    limited,    \* list of generators at Q limits
    fixedQg,    \* recorded bound of each limited generator
    success,    \* the success flag
    internal,   \* ppci["internal"]["Ybus"]: 0 = empty, n = triple of the n-th build,
                \* -1 = a triple stored before this run
    Ybus,       \* the triple used by the last solve (0 = none yet)
    calls,      \* number of invocations of each external collaborator
    entry,      \* bus and gen as they were at loop entry
    solved,     \* bus and gen as the last PowerFlowStep left them
    last        \* what the last steps did (selection, exit taken, kernel's flag)

vars == <<options, ppopt, pc, bus, gen, ref, pv, pq, limited, fixedQg,
          success, internal, Ybus, calls, entry, solved, last>>

(* ---- numpy helpers ---- *)

\* numpy.flatnonzero: the members of S in ascending order
RECURSIVE find(_)
find(S) ==
    IF S = {} THEN <<>>
    ELSE LET m == CHOOSE x \in S : \A y \in S : x <= y
         IN  <<m>> \o find(S \ {m})

\* numpy.argmax: 0-based position of the first maximum of a non-empty sequence
argmax(s) ==
    CHOOSE k \in 0..(Len(s) - 1) :
        /\ \A j \in 0..(Len(s) - 1) : ~greater(s[j + 1], s[k + 1])
        /\ \A j \in 0..(k - 1) : less(s[j + 1], s[k + 1])

\* the set of entries of an index list
Range(s) == {s[i] : i \in 1..Len(s)}

(* ---- external collaborators ---- *)

\* pandapower.pf.bustypes.bustypes: index lists of the buses of each type;
\* a bus counts as REF or PV only while a generator on it is in service
bustypes(b, g) ==
    LET has(i) == \E j \in Gens : g[j].GEN_STATUS > 0 /\ g[j].GEN_BUS = i
    IN  [ref |-> {i \in Buses : b[i].BUS_TYPE = REF /\ has(i)},
         pv  |-> {i \in Buses : b[i].BUS_TYPE = PV /\ has(i)},
         pq  |-> {i \in Buses : b[i].BUS_TYPE = PQ \/ ~has(i)}]

\* the generators that are on
OnGens(g) == {j \in Gens : g[j].GEN_STATUS > 0}

\* the first in-service generator of each reference bus (pfsoln gives it the
\* slack's active power)
RefGens(g, r) ==
    {j \in OnGens(g) : /\ g[j].GEN_BUS \in r
                       /\ \A i \in OnGens(g) : g[i].GEN_BUS = g[j].GEN_BUS => j <= i}

\* pandapower.pf.pfsoln_pypower.pfsoln: Qg of every generator is cleared and
\* recomputed for the in-service ones (q), Pg of the reference generators is
\* recomputed (p); bus types and bus demand are left alone
pfsoln(g, q, p) ==
    [j \in Gens |->
        [g[j] EXCEPT !.QG = IF j \in DOMAIN q THEN q[j] ELSE Zero,
                     !.PG = IF j \in DOMAIN p THEN p[j] ELSE @]]

(* ---- _get_options ---- *)

\* the algorithms implemented within pypower
algorithm_pypower_dict ==
    [a \in {"nr", "fdbx", "fdxb", "gs"} |->
        CASE a = "nr" -> 1 [] a = "fdbx" -> 2 [] a = "fdxb" -> 3 [] a = "gs" -> 4]

NoPpopt == [ENFORCE_Q_LIMS |-> 0, PF_ALG |-> 0]

GetOptions ==
    /\ pc = "start"
    /\ IF options.algorithm \in DOMAIN algorithm_pypower_dict
       THEN /\ ppopt' = [ENFORCE_Q_LIMS |-> options.enforce_q_lims,
                         PF_ALG |-> algorithm_pypower_dict[options.algorithm]]
            /\ pc' = "options"
       ELSE /\ pc' = "KeyError"
            /\ UNCHANGED ppopt
    /\ UNCHANGED <<options, bus, gen, ref, pv, pq, limited, fixedQg, success,
                   internal, Ybus, calls, entry, solved, last>>

(* ---- _runpf_pypower and _ac_runpf ---- *)

\* lines 155-159: the state _run_ac_pf_with_qlims_enforced sets up before its loop
LoopEntry(b, g) ==
    /\ ref' = bustypes(b, g).ref
    /\ pv' = bustypes(b, g).pv
    /\ pq' = bustypes(b, g).pq
    /\ limited' = <<>>
    /\ fixedQg' = [j \in Gens |-> Zero]
    /\ entry' = [bus |-> b, gen |-> g]

\* variant of init_from_dc: the DC pre-solve runs for every AC run
init_from_dc_always(o) == TRUE

\* line 56: the voltage angles are initialised by a DC solve
init_from_dc(o) == o.init_va_degree = "dc"

\* lines 55-63 and 92-97: the formulation branch, the DC solves and the
\* choice between the enforcement loop and a single power-flow step
RunFormulation ==
    /\ pc = "options"
    /\ IF options.ac
       THEN /\ IF init_from_dc(options)
               THEN /\ calls' = [calls EXCEPT !.dc = @ + 1]
                    /\ success' = TRUE
               ELSE UNCHANGED <<calls, success>>
            /\ IF ppopt.ENFORCE_Q_LIMS # 0
               THEN /\ LoopEntry(bus, gen)
                    /\ UNCHANGED last
               ELSE UNCHANGED <<ref, pv, pq, limited, fixedQg, entry, last>>
            /\ pc' = "solving"
       ELSE /\ calls' = [calls EXCEPT !.dc = @ + 1]
            /\ success' = TRUE
            /\ pc' = "dc_solved"
            /\ UNCHANGED <<ref, pv, pq, limited, fixedQg, entry, last>>
    /\ UNCHANGED <<options, ppopt, bus, gen, internal, Ybus, solved>>

\* lines 65-67: the results are stored from bus, gen and branch, which only
\* the AC branch has bound
StoreResults ==
    /\ pc \in {"ac_solved", "dc_solved"}
    /\ pc' = IF pc = "ac_solved" THEN "returned" ELSE "UnboundLocalError"
    /\ UNCHANGED <<options, ppopt, bus, gen, ref, pv, pq, limited, fixedQg,
                   success, internal, Ybus, calls, entry, solved, last>>

(* ---- _get_Y_bus ---- *)

\* variant of get_Y_bus: a fresh triple is stored whether or not reuse is allowed
get_Y_bus_always_stores(recycle, stored, n) ==
    IF recycle /\ stored # 0
    THEN [Ybus |-> stored, internal |-> stored, built |-> FALSE]
    ELSE [Ybus |-> n + 1, internal |-> n + 1, built |-> TRUE]

\* lines 125-134: n is the number of builds so far; the result names the
\* triple handed to the solve, the stored triple afterwards, and whether
\* makeYbus ran
get_Y_bus(recycle, stored, n) ==
    IF recycle /\ stored # 0
    THEN [Ybus |-> stored, internal |-> stored, built |-> FALSE]
    ELSE [Ybus |-> n + 1,
          internal |-> IF recycle THEN n + 1 ELSE stored,
          built |-> TRUE]

(* ---- _run_ac_pf_without_qlims_enforced and _call_power_flow_function ---- *)

\* variant of kernel: 'nr' (PF_ALG 1) is still dispatched to a kernel
kernel_with_nr(alg) ==
    IF alg <= 3 THEN "fdpf"
    ELSE IF alg = 4 THEN "gausspf"
    ELSE "none"

\* lines 226-239: the kernel PF_ALG selects, "none" when the dispatch raises
kernel(alg) ==
    IF alg = 2 \/ alg = 3 THEN "fdpf"
    ELSE IF alg = 4 THEN "gausspf"
    ELSE "none"

\* lines 137-151: one power-flow step.  The kernel's convergence flag and the
\* reactive and slack outputs that pfsoln derives from its voltages are the
\* nondeterministic outcome of the solve.
PowerFlowStep ==
    /\ pc = "solving"
    /\ LET y == get_Y_bus(options.recycle, internal, calls.makeYbus)
           k == kernel(ppopt.PF_ALG)
           c1 == [calls EXCEPT !.makeYbus = IF y.built THEN @ + 1 ELSE @,
                               !.pfstep = @ + 1]
       IN  /\ internal' = y.internal
           /\ Ybus' = y.Ybus
           /\ IF k = "none"
              THEN /\ pc' = "ValueError_alg"
                   /\ calls' = c1
                   /\ last' = [last EXCEPT !.step = "solve"]
                   /\ UNCHANGED <<gen, success, solved>>
              ELSE \E conv \in BOOLEAN :
                   \E q \in [OnGens(gen) -> QVals] :
                   \E p \in [RefGens(gen, bustypes(bus, gen).ref) -> PVals] :
                      /\ calls' = [c1 EXCEPT ![k] = @ + 1]
                      /\ gen' = pfsoln(gen, q, p)
                      /\ success' = conv
                      /\ last' = [last EXCEPT !.step = "solve", !.conv = conv]
                      /\ solved' = [bus |-> bus, gen |-> gen']
                      /\ pc' = IF ppopt.ENFORCE_Q_LIMS # 0 THEN "checking"
                               ELSE "ac_solved"
    /\ UNCHANGED <<options, ppopt, bus, ref, pv, pq, limited, fixedQg, entry>>

(* ---- _run_ac_pf_with_qlims_enforced ---- *)

\* lines 165-170: in-service generators above QMAX / below QMIN
mx_of(g) == find({j \in Gens : g[j].GEN_STATUS > 0 /\ greater(g[j].QG, g[j].QMAX)})

\* variant of mn_of: the lower bound is read from the QMAX column
mn_of_wrong_column(g) ==
    find({j \in Gens : g[j].GEN_STATUS > 0 /\ less(g[j].QG, g[j].QMAX)})

mn_of(g) == find({j \in Gens : g[j].GEN_STATUS > 0 /\ less(g[j].QG, g[j].QMIN)})

\* variant of no_pv_left: the missing PV buses go unnoticed
no_pv_left_ignored(p) == FALSE

\* line 174: no PV bus is left in the partition
no_pv_left(p) == Cardinality(p) = 0

\* lines 172-176 and 212-213: the exits of the loop
Check ==
    /\ pc = "checking"
    /\ IF Len(mx_of(gen)) > 0 \/ Len(mn_of(gen)) > 0
       THEN IF no_pv_left(pv)
            THEN /\ success' = FALSE
                 /\ pc' = "restoring"
                 /\ last' = [last EXCEPT !.step = "check", !.exit = "infeasible"]
            ELSE /\ pc' = "converting"
                 /\ last' = [last EXCEPT !.step = "check"]
                 /\ UNCHANGED success
       ELSE /\ pc' = "restoring"
            /\ last' = [last EXCEPT !.step = "check", !.exit = "done"]
            /\ UNCHANGED success
    /\ UNCHANGED <<options, ppopt, bus, gen, ref, pv, pq, limited, fixedQg,
                   internal, Ybus, calls, entry, solved>>

\* variant of select: the fix-all policy keeps the over-limit generators only
select_over_only(g, qlim) ==
    LET mx == mx_of(g)
        mn == mn_of(g)
        viol == [i \in 1..Len(mx) |-> subtract(g[mx[i]].QG, g[mx[i]].QMAX)]
                \o [i \in 1..Len(mn) |-> subtract(g[mn[i]].QMIN, g[mn[i]].QG)]
        k == argmax(viol)
    IN  IF qlim = 2
        THEN IF k > Len(mx)
             THEN [ok |-> TRUE, mx |-> <<>>, mn |-> <<mn[k - Len(mx) + 1]>>]
             ELSE IF k < Len(mx)
                  THEN [ok |-> TRUE, mx |-> <<mx[k + 1]>>, mn |-> <<>>]
                  ELSE [ok |-> FALSE, mx |-> <<>>, mn |-> <<>>]
        ELSE IF Len(mx) > 0 THEN [ok |-> TRUE, mx |-> mx, mn |-> <<>>]
             ELSE [ok |-> TRUE, mx |-> mx, mn |-> mn]

\* lines 179-187: the generators kept for conversion; ok is FALSE when the
\* indexing mx[k] is out of range
select(g, qlim) ==
    LET mx == mx_of(g)
        mn == mn_of(g)
        viol == [i \in 1..Len(mx) |-> subtract(g[mx[i]].QG, g[mx[i]].QMAX)]
                \o [i \in 1..Len(mn) |-> subtract(g[mn[i]].QMIN, g[mn[i]].QG)]
        k == argmax(viol)
    IN  IF qlim = 2
        THEN IF k > Len(mx)
             THEN [ok |-> TRUE, mx |-> <<>>, mn |-> <<mn[k - Len(mx) + 1]>>]
             ELSE IF k < Len(mx)
                  THEN [ok |-> TRUE, mx |-> <<mx[k + 1]>>, mn |-> <<>>]
                  ELSE [ok |-> FALSE, mx |-> <<>>, mn |-> <<>>]
        ELSE [ok |-> TRUE, mx |-> mx, mn |-> mn]

\* lines 190-191: save the corresponding limit values
save_limits(f, g, smx, smn) ==
    [j \in Gens |-> IF j \in Range(smn) THEN g[j].QMIN
                    ELSE IF j \in Range(smx) THEN g[j].QMAX
                    ELSE f[j]]

\* variant of set_binding: the selected generators are left in service
set_binding_stays_on(g, f, s) ==
    [j \in Gens |-> IF j \in Range(s) THEN [g[j] EXCEPT !.QG = f[j]] ELSE g[j]]

\* line 195 and 197: Qg of the selected generators is set to the saved
\* bound and they are turned off
set_binding(g, f, s) ==
    [j \in Gens |-> IF j \in Range(s)
                    THEN [g[j] EXCEPT !.QG = f[j], !.GEN_STATUS = 0]
                    ELSE g[j]]

\* variant of adjust_load: the load is left as it was
adjust_load_skipped(b, g, s) == b

\* lines 196-199: the load of each selected generator's bus is adjusted, one
\* generator at a time
RECURSIVE adjust_load(_, _, _)
adjust_load(b, g, s) ==
    IF s = <<>> THEN b
    ELSE LET i == Head(s)
             bi == g[i].GEN_BUS
         IN  adjust_load([b EXCEPT ![bi].PD = subtract(@, g[i].PG),
                                   ![bi].QD = subtract(@, g[i].QG)], g, Tail(s))

\* variant of slack_selected: the bus types are tested after the selected
\* buses were set to PQ
slack_selected_late(b, g, s, r) ==
    /\ Cardinality(r) > 1
    /\ \E i \in 1..Len(s) :
          b[g[s[i]].GEN_BUS].BUS_TYPE = REF /\ g[s[i]].GEN_BUS \notin
              {g[j].GEN_BUS : j \in Range(s)}

\* line 201: a selected generator sits on a REF bus of a multi-slack system
slack_selected(b, g, s, r) ==
    /\ Cardinality(r) > 1
    /\ \E i \in 1..Len(s) : b[g[s[i]].GEN_BUS].BUS_TYPE = REF

\* variant of set_PQ: every generator bus becomes PQ
set_PQ_every_gen_bus(b, g, s) ==
    [i \in Buses |-> IF \E j \in Gens : g[j].GEN_BUS = i
                     THEN [b[i] EXCEPT !.BUS_TYPE = PQ]
                     ELSE b[i]]

\* line 206: the buses of the selected generators become PQ
set_PQ(b, g, s) ==
    [i \in Buses |-> IF \E j \in Range(s) : g[j].GEN_BUS = i
                     THEN [b[i] EXCEPT !.BUS_TYPE = PQ]
                     ELSE b[i]]

\* lines 178-211: one converting pass
Convert ==
    /\ pc = "converting"
    /\ LET sl == select(gen, ppopt.ENFORCE_Q_LIMS)
           f1 == save_limits(fixedQg, gen, sl.mx, sl.mn)
           s  == sl.mx \o sl.mn
           g1 == set_binding(gen, f1, s)
           b1 == adjust_load(bus, g1, s)
           b2 == set_PQ(b1, g1, s)
       IN  IF ~sl.ok
           THEN /\ pc' = "IndexError"
                /\ last' = [last EXCEPT !.step = "convert", !.sel = <<>>]
                /\ UNCHANGED <<bus, gen, ref, pv, pq, limited, fixedQg>>
           ELSE IF slack_selected(b1, g1, s, ref)
           THEN /\ pc' = "ValueError_slack"
                /\ fixedQg' = f1
                /\ gen' = g1
                /\ bus' = b1
                /\ last' = [last EXCEPT !.step = "convert", !.sel = s]
                /\ UNCHANGED <<ref, pv, pq, limited>>
           ELSE /\ pc' = "solving"
                /\ fixedQg' = f1
                /\ gen' = g1
                /\ bus' = b2
                /\ ref' = bustypes(b2, g1).ref
                /\ pv' = bustypes(b2, g1).pv
                /\ pq' = bustypes(b2, g1).pq
                /\ limited' = limited \o s
                /\ last' = [last EXCEPT !.step = "convert", !.sel = s]
    /\ UNCHANGED <<options, ppopt, success, internal, Ybus, calls, entry, solved>>

\* variant of restore_Qg: the limited generators keep the Qg of the last solve
restore_Qg_skipped(g, f, lim) == g

\* line 217: restore the Qg value of the limited generators
restore_Qg(g, f, lim) ==
    [j \in Gens |-> IF j \in Range(lim) THEN [g[j] EXCEPT !.QG = f[j]] ELSE g[j]]

\* lines 218-220: re-adjust the load, one generator at a time
RECURSIVE readjust_load(_, _, _)
readjust_load(b, g, s) ==
    IF s = <<>> THEN b
    ELSE LET i == Head(s)
             bi == g[i].GEN_BUS
         IN  readjust_load([b EXCEPT ![bi].PD = add(@, g[i].PG),
                                     ![bi].QD = add(@, g[i].QG)], g, Tail(s))

\* line 221: turn the limited generators back on
turn_on(g, lim) ==
    [j \in Gens |-> IF j \in Range(lim) THEN [g[j] EXCEPT !.GEN_STATUS = 1] ELSE g[j]]

\* lines 215-223: the restoration after the loop, and the return
Restore ==
    /\ pc = "restoring"
    /\ IF Len(limited) > 0
       THEN LET g1 == restore_Qg(gen, fixedQg, limited)
            IN  /\ bus' = readjust_load(bus, g1, limited)
                /\ gen' = turn_on(g1, limited)
                /\ last' = [last EXCEPT !.step = "restore", !.restored = TRUE]
       ELSE /\ UNCHANGED <<bus, gen>>
            /\ last' = [last EXCEPT !.step = "restore"]
    /\ pc' = "ac_solved"
    /\ UNCHANGED <<options, ppopt, ref, pv, pq, limited, fixedQg, success,
                   internal, Ybus, calls, entry, solved>>

(* ---- inputs ---- *)

\* reactive bounds of generator j, QMIN < 0 < QMAX
QMAX_of(j) == IF j % 2 = 1 THEN d2_2 ELSE d1_1
QMIN_of(j) == IF j % 2 = 1 THEN negative(d1_1) ELSE negative(d2_2)

\* bus types: bus 1 is a slack, bus 2 a slack or a PV bus, the last bus a PV
\* or a PQ bus, and every bus between them a PV bus
BusTypes == {t \in [Buses -> {PQ, PV, REF}] :
                /\ t[1] = REF
                /\ t[2] \in {REF, PV}
                /\ \A i \in Buses : (2 < i /\ i < NB) => t[i] = PV
                /\ t[NB] \in {PV, PQ}}

\* generators are numbered in bus order starting on bus 1, one per bus,
\* except that generator 3 may share the bus of generator 2
GenBuses == {m \in [Gens -> Buses] :
                /\ m[1] = 1
                /\ \A j \in Gens \ {1} : m[j] \in {m[j - 1], m[j - 1] + 1}
                /\ \A j \in Gens \ {1} : m[j] = m[j - 1] => j = 3}

\* every generator in service, or the last one out of service
GenStatus == {[j \in Gens |-> 1], [j \in Gens |-> IF j = NG THEN 0 ELSE 1]}

\* placement and status of the generators: with one generator per bus the
\* last generator may be out of service
GenLayouts == {l \in [m : GenBuses, st : GenStatus] :
                  l.st[NG] = 0 => \A j \in Gens : l.m[j] = Min(j, NB)}

\* the networks at entry: demand 5.3 + 5.3j on every bus, every generator
\* with PG = 1.1 and no reactive output yet
Networks ==
    {[bus |-> [i \in Buses |-> [BUS_TYPE |-> t[i], PD |-> d5_3, QD |-> d5_3]],
      gen |-> [j \in Gens |-> [GEN_BUS |-> l.m[j], PG |-> d1_1, QG |-> Zero,
                               QMAX |-> QMAX_of(j), QMIN |-> QMIN_of(j),
                               GEN_STATUS |-> l.st[j]]]] :
        t \in BusTypes, l \in GenLayouts}

Options ==
    [init_va_degree : {"flat", "dc"}, ac : BOOLEAN, recycle : BOOLEAN,
     enforce_q_lims : {0, 1, 2}, algorithm : {"nr", "fdbx", "fdxb", "gs", "bfsw"}]

NoCalls == [dc |-> 0, makeYbus |-> 0, pfstep |-> 0, fdpf |-> 0, gausspf |-> 0]
NoLast == [step |-> "none", sel |-> <<>>, exit |-> "none", restored |-> FALSE,
           conv |-> FALSE]

\* the number of generators in service in a whole run
RunGens == 3

\* the networks of the whole-run specification: one generator per bus, the
\* first RunGens of them in service, and no PQ bus
RunNetworks ==
    {[bus |-> n.bus,
      gen |-> [j \in Gens |-> [n.gen[j] EXCEPT !.GEN_STATUS =
                                   IF j <= RunGens THEN 1 ELSE 0]]] :
        n \in {k \in Networks : /\ \A j \in Gens : k.gen[j].GEN_BUS = Min(j, NB)
                                /\ \A i \in Buses : k.bus[i].BUS_TYPE # PQ}}

\* the state in which _runpf_pypower is called
Init ==
    /\ options \in Options
    /\ ppopt = NoPpopt
    /\ pc = "start"
    /\ \E n \in RunNetworks :
          /\ bus = n.bus
          /\ gen = n.gen
          /\ entry = n
          /\ solved = n
    /\ ref = {} /\ pv = {} /\ pq = {}
    /\ limited = <<>>
    /\ fixedQg = [j \in Gens |-> Zero]
    /\ success = FALSE
    /\ internal \in {0, 0 - 1}
    /\ Ybus = 0
    /\ calls = NoCalls
    /\ last = NoLast

\* the options with which the enforcement loop is entered directly: either
\* policy, an algorithm with and one without a kernel, no admittance reuse
LoopOptions ==
    [init_va_degree : {"flat"}, ac : {TRUE}, recycle : {FALSE},
     enforce_q_lims : {1, 2}, algorithm : {"nr", "gs"}]

\* the state in which _run_ac_pf_with_qlims_enforced starts its loop
\* (lines 155-159), for any network
InitLoop ==
    /\ options \in LoopOptions
    /\ ppopt = [ENFORCE_Q_LIMS |-> options.enforce_q_lims,
                PF_ALG |-> algorithm_pypower_dict[options.algorithm]]
    /\ pc = "solving"
    /\ \E n \in Networks :
          /\ bus = n.bus
          /\ gen = n.gen
          /\ entry = n
          /\ solved = n
          /\ ref = bustypes(n.bus, n.gen).ref
          /\ pv = bustypes(n.bus, n.gen).pv
          /\ pq = bustypes(n.bus, n.gen).pq
    /\ limited = <<>>
    /\ fixedQg = [j \in Gens |-> Zero]
    /\ success = FALSE
    /\ internal = 0
    /\ Ybus = 0
    /\ calls = NoCalls
    /\ last = NoLast

Next ==
    \/ GetOptions
    \/ RunFormulation
    \/ PowerFlowStep
    \/ Check
    \/ Convert
    \/ Restore
    \/ StoreResults

Spec == Init /\ [][Next]_vars

\* the steps of one call of _run_ac_pf_with_qlims_enforced
NextLoop ==
    \/ PowerFlowStep
    \/ Check
    \/ Convert
    \/ Restore

SpecLoop == InitLoop /\ [][NextLoop]_vars

(* ======================================================================= *)
(* Properties                                                              *)
(* ======================================================================= *)

\* the generators a step takes out of service
Converted == {j \in Gens : gen[j].GEN_STATUS > 0 /\ gen'[j].GEN_STATUS = 0}

\* the bound generator j violates in the current state
BoundOf(j) == IF greater(gen[j].QG, gen[j].QMAX) THEN gen[j].QMAX ELSE gen[j].QMIN

\* the loop has returned or raised
LoopEnded == pc \in {"ac_solved", "ValueError_alg", "ValueError_slack", "IndexError"}

\* the run has returned or raised
RunEnded == pc \in {"returned", "KeyError", "ValueError_alg", "ValueError_slack",
                    "IndexError", "UnboundLocalError"}

SameDemand(b1, b2) == \A i \in Buses : b1[i].PD = b2[i].PD /\ b1[i].QD = b2[i].QD

\* the demand d of bus i less the value v[j] of every generator j of the list
\* s that sits on bus i, subtracted one generator at a time in list order
RECURSIVE Lowered(_, _, _, _)
Lowered(d, s, i, v) ==
    IF s = <<>> THEN d
    ELSE Lowered(IF gen[Head(s)].GEN_BUS = i THEN subtract(d, v[Head(s)]) ELSE d,
                 Tail(s), i, v)

(* ---- C1 ---- *)
\* C1: injection conservation.  In a converting pass the demand of every bus
\* becomes its demand less the (PG, bound-valued QG) of the generators
\* converted on it in that pass, and whenever the loop returns the demand of
\* every bus is its demand at loop entry.
C1_InjectionConservation ==
    [][ /\ pc = "converting" =>
            /\ Range(last'.sel) = Converted
            /\ \A i \in Buses :
                  /\ bus'[i].PD = Lowered(bus[i].PD, last'.sel, i,
                                          [j \in Gens |-> gen[j].PG])
                  /\ bus'[i].QD = Lowered(bus[i].QD, last'.sel, i,
                                          [j \in Gens |-> BoundOf(j)])
        /\ pc' = "ac_solved" => SameDemand(bus', entry.bus)
      ]_vars

(* ---- C2 ---- *)
\* C2: slack protection.  A converting pass that takes a generator of a REF
\* bus out of service while the partition has more than one reference bus
\* raises the multi-slack error and changes no bus type; and in a network
\* that enters the loop with more than one reference bus no REF bus ever
\* changes type.
C2_SlackProtection ==
    [][ /\ ( /\ pc = "converting"
             /\ Cardinality(ref) > 1
             /\ \E j \in Converted : bus[gen[j].GEN_BUS].BUS_TYPE = REF )
           => ( /\ pc' = "ValueError_slack"
                /\ \A i \in Buses : bus'[i].BUS_TYPE = bus[i].BUS_TYPE )
        /\ Cardinality(bustypes(entry.bus, entry.gen).ref) > 1
           => \A i \in Buses : bus[i].BUS_TYPE = REF => bus'[i].BUS_TYPE = REF
      ]_vars

\* the multi-slack error was raised for a selected generator of a REF bus
C2_Witness ==
    /\ pc = "ValueError_slack"
    /\ Cardinality(ref) > 1
    /\ \E i \in 1..Len(last.sel) : bus[gen[last.sel[i]].GEN_BUS].BUS_TYPE = REF

(* ---- C3 ---- *)
\* C3: after a non-converged power-flow step the loop stops at once: it
\* never converts a generator and never solves again with success = false.
C3_StopsOnNonConvergence ==
    (pc = "converting" \/ (pc = "solving" /\ calls.pfstep > 0)) => success

(* ---- C4 ---- *)
\* C4: at the infeasible exit the returned generator status, generator QG
\* and bus demand are those of the last solve: no restoration has run.
C4_InfeasibleUnrestored ==
    (pc = "ac_solved" /\ last.exit = "infeasible") =>
        /\ ~success
        /\ \A j \in Gens : /\ gen[j].GEN_STATUS = solved.gen[j].GEN_STATUS
                           /\ gen[j].QG = solved.gen[j].QG
        /\ SameDemand(bus, solved.bus)

(* ---- C5 ---- *)
\* violation magnitude of generator j, and its place in the over-limit-then-
\* under-limit ordering
Over(j) == greater(gen[j].QG, gen[j].QMAX)
Under(j) == less(gen[j].QG, gen[j].QMIN)
Violating == {j \in Gens : gen[j].GEN_STATUS > 0 /\ (Over(j) \/ Under(j))}
Magnitude(j) == IF Over(j) THEN subtract(gen[j].QG, gen[j].QMAX)
                ELSE subtract(gen[j].QMIN, gen[j].QG)
Before(j, k) == \/ Over(j) /\ ~Over(k)
                \/ Over(j) = Over(k) /\ j < k
Worst == CHOOSE j \in Violating :
            \A k \in Violating \ {j} :
                \/ less(Magnitude(k), Magnitude(j))
                \/ Magnitude(k) = Magnitude(j) /\ Before(j, k)

\* C5: under fix-worst-one every converting pass takes exactly one generator
\* out of service, the one with the largest violation magnitude, ties going
\* to the first in the over-limit-then-under-limit ordering.
C5_FixWorstOne ==
    [][ (pc = "converting" /\ ppopt.ENFORCE_Q_LIMS = 2) => Converted = {Worst} ]_vars

(* ---- C6 ---- *)
\* C6: the bound recorded at a conversion is QMAX for an over-limit and QMIN
\* for an under-limit generator and is never overwritten afterwards; when the
\* loop returns through the no-violation exit every limited generator is in
\* service with QG equal to that recorded bound, and every generator in
\* service at loop entry is in service.
C6_DoneRestoration ==
    [][ /\ pc = "converting" => \A j \in Converted : fixedQg'[j] = BoundOf(j)
        /\ \A j \in Range(limited) : fixedQg'[j] = fixedQg[j]
        /\ (pc' = "ac_solved" /\ last'.exit = "done") =>
              /\ \A j \in Range(limited') : /\ gen'[j].GEN_STATUS = 1
                                            /\ gen'[j].QG = fixedQg'[j]
              /\ \A j \in Gens : entry.gen[j].GEN_STATUS > 0 => gen'[j].GEN_STATUS > 0
      ]_vars

\* the loop returned through the no-violation exit with one generator
\* limited at its maximum and another at its minimum
C6_Witness ==
    /\ pc = "ac_solved"
    /\ last.exit = "done"
    /\ \E j, k \in Range(limited) : /\ gen[j].QG = gen[j].QMAX
                                    /\ gen[k].QG = gen[k].QMIN

(* ---- C7 ---- *)
\* C7: a loop that ends through the no-violation exit returns success = true.
C7_DoneIsSuccess ==
    (pc = "ac_solved" /\ last.exit = "done") => success

(* ---- C8 ---- *)
\* C8: a DC-only run (with an algorithm the option mapping knows) ends by
\* returning success = true after exactly one DC solve and no AC kernel call.
C8_DcRunSucceeds ==
    (~options.ac /\ options.algorithm \in DOMAIN algorithm_pypower_dict /\ RunEnded) =>
        /\ pc = "returned"
        /\ success
        /\ calls.dc = 1
        /\ calls.fdpf = 0 /\ calls.gausspf = 0

(* ---- C9 ---- *)
\* C9: under fix-worst-one, in a single-slack network and with a supported
\* algorithm, the loop only ever ends by returning, either through the
\* no-violation exit or with success = false.
C9_EndsDoneOrInfeasible ==
    ( /\ LoopEnded
      /\ ppopt.ENFORCE_Q_LIMS = 2
      /\ kernel(ppopt.PF_ALG) # "none"
      /\ Cardinality(bustypes(entry.bus, entry.gen).ref) <= 1 ) =>
        /\ pc = "ac_solved"
        /\ last.exit = "done" \/ (last.exit = "infeasible" /\ ~success)

(* ---- C10 ---- *)
Supported == {"fdbx", "fdxb", "gs"}

\* C10 as stated: an AC run with an algorithm other than the fast-decoupled
\* variants and Gauss-Seidel ends with the error raised at dispatch, and
\* neither kernel is invoked.
C10_FailsAtDispatch ==
    (options.algorithm \notin Supported /\ options.ac) =>
        /\ calls.fdpf = 0 /\ calls.gausspf = 0
        /\ RunEnded => pc = "ValueError_alg"

\* C10 amended: with such an algorithm neither kernel is ever invoked; an AC
\* run with an identifier the option mapping knows ('nr') ends with the error
\* raised at dispatch in its first power-flow step, and a run with an
\* identifier the mapping does not know ends with the KeyError of
\* _get_options before any solve.
C10_NoKernelForUnsupported ==
    options.algorithm \notin Supported =>
        /\ calls.fdpf = 0 /\ calls.gausspf = 0
        /\ (RunEnded /\ options.ac /\ options.algorithm \in DOMAIN algorithm_pypower_dict)
              => (pc = "ValueError_alg" /\ calls.pfstep = 1)
        /\ (RunEnded /\ options.algorithm \notin DOMAIN algorithm_pypower_dict)
              => (pc = "KeyError" /\ calls = NoCalls)

\* an AC run with 'nr' raised at dispatch, after its DC pre-solve
C10_Witness ==
    /\ pc = "ValueError_alg"
    /\ options.algorithm = "nr"
    /\ calls.dc = 1

(* ---- C11 ---- *)
\* C11: in every power-flow step, if reuse is allowed and a triple is stored,
\* that triple is handed to the solve, stays stored and makeYbus is not
\* called; otherwise makeYbus is called once, its result is handed to the
\* solve and is stored exactly if reuse is allowed.  Hence with reuse allowed
\* makeYbus runs at most once in a run, and with reuse not allowed it runs
\* once per step and the stored triple is never written, whether or not the
\* run started with one.
C11_AdmittanceCache ==
    [][ pc = "solving" =>
          /\ IF options.recycle /\ internal # 0
             THEN /\ Ybus' = internal
                  /\ internal' = internal
                  /\ calls'.makeYbus = calls.makeYbus
             ELSE /\ calls'.makeYbus = calls.makeYbus + 1
                  /\ Ybus' = calls'.makeYbus
                  /\ internal' = IF options.recycle THEN Ybus' ELSE internal
          /\ options.recycle => calls'.makeYbus <= 1
          /\ ~options.recycle => (calls'.makeYbus = calls'.pfstep /\ internal' = internal)
      ]_vars

\* a later pass of the enforcement loop, after a conversion, solved with the
\* triple stored by the first pass
C11_Witness ==
    /\ options.recycle
    /\ Len(limited) > 0
    /\ calls.pfstep >= 2
    /\ calls.makeYbus = 1
    /\ Ybus = 1 /\ internal = 1

(* ---- C12 ---- *)
\* C12: a CHECKING that finds a violating in-service generator while the
\* partition has no PV bus leaves the loop with success = false and turns no
\* generator off, changes no demand and no bus type; a CHECKING that finds no
\* violation leaves the loop whatever the PV set is; and after either exit no
\* generator is turned off and no bus type changes.
C12_InfeasibilityGuard ==
    [][ /\ (pc = "checking" /\ Violating # {} /\ pv = {}) =>
              /\ pc' = "restoring"
              /\ last'.exit = "infeasible"
              /\ ~success'
              /\ gen' = gen /\ bus' = bus /\ limited' = limited
        /\ (pc = "checking" /\ Violating = {}) =>
              /\ pc' = "restoring"
              /\ last'.exit = "done"
              /\ gen' = gen /\ bus' = bus
        /\ pc = "restoring" =>
              /\ Converted = {}
              /\ \A i \in Buses : bus'[i].BUS_TYPE = bus[i].BUS_TYPE
      ]_vars

\* the loop was left because a violation met an empty PV set, after a
\* solve that converged
C12_Witness ==
    /\ pc = "restoring"
    /\ last.exit = "infeasible"
    /\ last.conv
    /\ pv = {}
    /\ Violating # {}

(* ---- C13 ---- *)
\* the policy is fix-all: ENFORCE_Q_LIMS is truthy and not 2
FixAll == ppopt.ENFORCE_Q_LIMS # 0 /\ ppopt.ENFORCE_Q_LIMS # 2

\* the generators a step appends to the limited list
Appended == {limited'[i] : i \in (Len(limited) + 1)..Len(limited')}

\* C13 as stated: under fix-all every converting pass converts exactly the
\* violating in-service generators: QG at the violated bound, out of
\* service, bus reclassified PQ, index appended to the limited list.
C13_FixAll ==
    [][ (pc = "converting" /\ FixAll) =>
          /\ Converted = Violating
          /\ \A j \in Violating : /\ gen'[j].QG = BoundOf(j)
                                  /\ bus'[gen[j].GEN_BUS].BUS_TYPE = PQ
          /\ Len(limited') = Len(limited) + Cardinality(Violating)
          /\ Appended = Violating
      ]_vars

\* C13 amended: the same for every converting pass that does not raise the
\* multi-slack error; a pass that raises it has set QG to the bound and
\* turned off exactly the violating generators, but has changed no bus type
\* and appended nothing.
C13_FixAllUnlessSlackError ==
    [][ (pc = "converting" /\ FixAll) =>
          /\ Converted = Violating
          /\ \A j \in Violating : gen'[j].QG = BoundOf(j)
          /\ \A j \in Gens \ Violating : gen'[j] = gen[j]
          /\ IF pc' = "ValueError_slack"
             THEN /\ \A i \in Buses : bus'[i].BUS_TYPE = bus[i].BUS_TYPE
                  /\ limited' = limited
             ELSE /\ \A j \in Violating : bus'[gen[j].GEN_BUS].BUS_TYPE = PQ
                  /\ Len(limited') = Len(limited) + Cardinality(Violating)
                  /\ Appended = Violating
                  /\ pc' = "solving"
      ]_vars

\* a fix-all pass has just converted an over-limit and an under-limit
\* generator together
C13_Witness ==
    /\ pc = "solving"
    /\ FixAll
    /\ last.step = "convert"
    /\ \E j, k \in Range(last.sel) :
          /\ j # k
          /\ gen[j].GEN_STATUS = 0 /\ gen[j].QG = gen[j].QMAX
          /\ gen[k].GEN_STATUS = 0 /\ gen[k].QG = gen[k].QMIN
          /\ bus[gen[j].GEN_BUS].BUS_TYPE = PQ
          /\ {j, k} \subseteq Range(limited)

(* ---- C14 ---- *)
RefTyped(b) == {i \in Buses : b[i].BUS_TYPE = REF}

\* C14: a network that enters the loop with exactly one bus of type REF has
\* exactly one bus of type REF after every pass and at return.
C14_SingleSlack ==
    Cardinality(RefTyped(entry.bus)) = 1 => Cardinality(RefTyped(bus)) = 1

(* ---- C15 ---- *)
\* the generator data with which a solve of the current state starts are
\* those of loop entry, and a solve with the outcome already in g changes
\* nothing
SameRun(g, b) ==
    /\ \A j \in Gens : /\ g[j].GEN_STATUS = entry.gen[j].GEN_STATUS
                       /\ g[j].GEN_BUS = entry.gen[j].GEN_BUS
                       /\ g[j].QMAX = entry.gen[j].QMAX
                       /\ g[j].QMIN = entry.gen[j].QMIN
    /\ \A i \in Buses : b[i] = entry.bus[i]
    /\ bustypes(b, g) = bustypes(entry.bus, entry.gen)
    /\ pfsoln(g, [j \in OnGens(g) |-> g[j].QG],
                 [j \in RefGens(g, bustypes(b, g).ref) |-> g[j].PG]) = g

\* C15: when the first CHECKING finds no violating in-service generator the
\* loop returns after that one solve, with no conversion, an empty limited
\* list and no restoration; generator status, bus types and bus demand are
\* those of loop entry, and the returned state is a loop entry on which the
\* same solve outcome gives the same state again.
C15_IdempotentWhenLimitFree ==
    [][ /\ (pc = "checking" /\ calls.pfstep = 1 /\ Violating = {}) =>
              /\ pc' = "restoring"
              /\ last'.exit = "done"
              /\ gen' = gen /\ bus' = bus
              /\ limited' = <<>>
        /\ (pc = "restoring" /\ calls.pfstep = 1 /\ last.exit = "done") =>
              /\ pc' = "ac_solved"
              /\ calls'.pfstep = 1
              /\ limited' = <<>>
              /\ ~last'.restored
              /\ gen' = solved.gen /\ bus' = solved.bus
              /\ SameRun(gen', bus')
      ]_vars

\* the loop returned after one solve that left a generator with a non-zero
\* reactive output within its bounds
C15_Witness ==
    /\ pc = "ac_solved"
    /\ calls.pfstep = 1
    /\ last.exit = "done"
    /\ \E j \in Gens : gen[j].GEN_STATUS > 0 /\ gen[j].QG = gen[j].QMAX
    /\ \E j \in Gens : /\ gen[j].GEN_STATUS > 0
                       /\ gen[j].QG # Zero
                       /\ less(gen[j].QG, gen[j].QMAX)

(* ---- C16 ---- *)
\* the run is inside the enforcement loop or has left it through an exit
InLoop == pc \in {"checking", "converting", "restoring"} \/ last.exit # "none"

\* C16: in an AC run the DC solve runs exactly when init_va_degree is 'dc',
\* once, and before any power-flow step; with ENFORCE_Q_LIMS enabled every
\* power-flow step is followed by the loop's CHECKING (or raises) and the run
\* returns only through a loop exit, with it disabled the loop is never
\* entered and exactly one power-flow step has run at return; the returned
\* success is the flag of the last kernel call, or false after the
\* infeasible exit.
C16_ControllerOrdering ==
    [][ options.ac =>
          /\ calls'.dc # calls.dc =>
                /\ options.init_va_degree = "dc"
                /\ calls.dc = 0 /\ calls'.dc = 1
                /\ calls'.pfstep = 0
          /\ calls'.pfstep > 0 =>
                calls'.dc = (IF options.init_va_degree = "dc" THEN 1 ELSE 0)
          /\ IF ppopt'.ENFORCE_Q_LIMS # 0
             THEN /\ pc = "solving" => pc' \in {"checking", "ValueError_alg"}
                  /\ pc' \in {"ac_solved", "returned"} => last'.exit # "none"
             ELSE /\ ~InLoop'
                  /\ pc = "solving" => pc' \in {"ac_solved", "ValueError_alg"}
                  /\ pc' \in {"ac_solved", "returned"} => calls'.pfstep = 1
          /\ pc' = "returned" =>
                success' = (last'.conv /\ last'.exit # "infeasible")
      ]_vars

\* an AC run with a DC pre-solve and no limit enforcement returned the
\* failure of its single power-flow step
C16_Witness ==
    /\ pc = "returned"
    /\ options.init_va_degree = "dc"
    /\ ppopt.ENFORCE_Q_LIMS = 0
    /\ calls.dc = 1 /\ calls.pfstep = 1
    /\ ~success

(* ---- C17 ---- *)
\* C17: a bus type changes only in a converting pass, only on the bus of a
\* generator that pass takes out of service, and only to PQ; so neither a
\* power-flow step nor the restoration changes one, and when the loop
\* returns every limited generator is in service on a bus of type PQ.
C17_BusTypeFrame ==
    [][ /\ \A i \in Buses :
              bus'[i].BUS_TYPE # bus[i].BUS_TYPE =>
                 /\ pc = "converting"
                 /\ bus'[i].BUS_TYPE = PQ
                 /\ \E j \in Converted : gen[j].GEN_BUS = i
        /\ pc' = "ac_solved" =>
              \A j \in Range(limited') : /\ gen'[j].GEN_STATUS = 1
                                         /\ bus'[gen'[j].GEN_BUS].BUS_TYPE = PQ
      ]_vars

\* the loop returned with a limited generator in service on a bus that
\* entered the loop as PV, next to a PV bus that kept its type
C17_Witness ==
    /\ pc = "ac_solved"
    /\ \E j \in Range(limited) :
          /\ gen[j].GEN_STATUS = 1
          /\ entry.bus[gen[j].GEN_BUS].BUS_TYPE = PV
          /\ bus[gen[j].GEN_BUS].BUS_TYPE = PQ
    /\ \E i \in Buses : bus[i].BUS_TYPE = PV

(* ---- C18 ---- *)
NoRepeat(s) == \A i, k \in 1..Len(s) : i # k => s[i] # s[k]

\* an initially in-service generator is out of service exactly if limited
OffIffLimited(g, lim) ==
    \A j \in OnGens(entry.gen) : (g[j].GEN_STATUS = 0) <=> (j \in Range(lim))

\* C18 as stated (for the fix-all policy): the limited list has no repeats,
\* an initially in-service generator is out of service exactly if it is in
\* the list at every point of the loop, every converting pass extends the
\* list, and at most (generators in service at entry) + 1 power-flow steps
\* run.
C18_ConvertedOnce ==
    [][ FixAll =>
          /\ NoRepeat(limited')
          /\ pc' # "ac_solved" => OffIffLimited(gen', limited')
          /\ pc = "converting" => Len(limited') > Len(limited)
          /\ calls'.pfstep <= Cardinality(OnGens(entry.gen)) + 1
      ]_vars

\* C18 amended: the same for every policy, with the passes that raise left
\* out: the list has no repeats, an initially in-service generator is out of
\* service exactly if it is in the list whenever the loop is about to solve,
\* check, convert or restore, every converting pass that does not raise
\* extends the list, and at most (generators in service at entry) + 1
\* power-flow steps run.
C18_ConvertedOncePerCompletedPass ==
    [][ /\ NoRepeat(limited')
        /\ pc' \in {"solving", "checking", "converting", "restoring"}
              => OffIffLimited(gen', limited')
        /\ (pc = "converting" /\ pc' = "solving") => Len(limited') > Len(limited)
        /\ calls'.pfstep <= Cardinality(OnGens(entry.gen)) + 1
      ]_vars

\* every generator was in service at entry and has been limited, one per
\* pass, and the last possible power-flow step has run
C18_Witness ==
    /\ pc = "checking"
    /\ OnGens(entry.gen) = Gens
    /\ Len(limited) = NG
    /\ calls.pfstep = NG + 1

(* ---- C19 ---- *)
\* C19: in the state the multi-slack error leaves, the generators selected
\* in the raising pass have QG at their bound and are out of service, the
\* generators limited in earlier passes are still out of service, the demand
\* of every bus is its demand at loop entry less the PG and the bound of the
\* limited and then the selected generators on it, no bus type was changed
\* by the pass and no restoration has run.
C19_StateAtSlackError ==
    pc = "ValueError_slack" =>
        LET off == Range(limited) \cup Range(last.sel)
        IN  /\ last.sel # <<>>
            /\ Range(limited) \cap Range(last.sel) = {}
            /\ \A j \in Range(last.sel) :
                  /\ gen[j].GEN_STATUS = 0
                  /\ gen[j].QG = fixedQg[j]
                  /\ gen[j].QG = IF greater(solved.gen[j].QG, gen[j].QMAX)
                                 THEN gen[j].QMAX ELSE gen[j].QMIN
            /\ \A j \in Range(limited) :
                  /\ gen[j].GEN_STATUS = 0
                  /\ fixedQg[j] \in {gen[j].QMAX, gen[j].QMIN}
            /\ \A j \in Gens \ off : gen[j] = solved.gen[j]
            /\ \A i \in Buses :
                  /\ bus[i].PD = Lowered(entry.bus[i].PD, limited \o last.sel, i,
                                         [j \in Gens |-> gen[j].PG])
                  /\ bus[i].QD = Lowered(entry.bus[i].QD, limited \o last.sel, i,
                                         fixedQg)
                  /\ bus[i].BUS_TYPE = solved.bus[i].BUS_TYPE
            /\ ~last.restored

\* the multi-slack error was raised in a later pass: a generator limited in
\* an earlier pass is still out of service, and the raising pass had
\* selected a generator of a reference bus and one of another bus
C19_Witness ==
    /\ pc = "ValueError_slack"
    /\ Len(limited) > 0
    /\ \A j \in Range(limited) : gen[j].GEN_STATUS = 0
    /\ \E j, k \in Range(last.sel) :
          /\ bus[gen[j].GEN_BUS].BUS_TYPE = REF
          /\ bus[gen[k].GEN_BUS].BUS_TYPE # REF

====
